---- MODULE Spec2Model ----
(***************************************************************************)
(* The casafresca dashboard: the Home component in its four iterations     *)
(* (src/app/page.tsx, the two components of src/unnamed/part_000 and       *)
(* src/unnamed/part_001).  The state is the component's React state, the   *)
(* position of the fetch started by the mount effect, the pending timers   *)
(* of the mascot and the output of the last render.                        *)
(***************************************************************************)
EXTENDS Integers, Sequences, FiniteSets, TLC

VARIABLES variant, supabase, data, loading, timeRange, showMiau,
          fetch, queries, timers, now, view, call

vars == <<variant, supabase, data, loading, timeRange, showMiau,
          fetch, queries, timers, now, view, call>>

(***************************************************************************)
(* Bounds of the model.                                                    *)
(***************************************************************************)
\* rows the store returns to the view
MaxRows == 2
\* readings handed to the delta calculator when it is exercised on its own
MaxLen == 3
\* reading timestamps fall on day 0 .. MaxDay
MaxDay == 2
\* mascot timers pending at the same time
MaxTimers == 2

(***************************************************************************)
(* The four iterations of the component.                                   *)
(***************************************************************************)
Page == "page.tsx"
Part000a == "part_000:1-272"
Part000b == "part_000:273-769"
Part001 == "part_001"

Variants == {Page, Part000a, Part000b, Part001}
\* iterations that define get24hDifference and the delta row
DeltaVariants == {Page, Part000a, Part000b}
\* iterations that keep a timeRange and filter the chart
RangeVariants == {Page, Part000a, Part000b}
\* iterations with the clickable mascot
MiauVariants == {Page, Part000b}
\* iterations whose get24hDifference returns the bare number
NumberVariants == {Page, Part000a}

(***************************************************************************)
(* JavaScript values.  A number is finite (temperatures in tenths of a     *)
(* degree, instants in milliseconds) or NaN; null and undefined are        *)
(* values of their own.                                                    *)
(***************************************************************************)
Null == [tag |-> "null"]
Undefined == [tag |-> "undefined"]
NaN == [tag |-> "NaN"]
Fin(n) == [tag |-> "num", v |-> n]

IsFin(x) == x.tag = "num"
\* a - b
Sub(a, b) == IF IsFin(a) /\ IsFin(b) THEN Fin(a.v - b.v) ELSE NaN
\* -a
Neg(a) == IF IsFin(a) THEN Fin(0 - a.v) ELSE NaN
\* Math.abs(a)
MathAbs(a) == IF IsFin(a) THEN Fin(IF a.v < 0 THEN 0 - a.v ELSE a.v) ELSE NaN
\* a > b and a < b: false as soon as one side is NaN
Gt(a, b) == IsFin(a) /\ IsFin(b) /\ a.v > b.v
\* a >= b
Ge(a, b) == IsFin(a) /\ IsFin(b) /\ a.v >= b.v
Lt(a, b) == IsFin(a) /\ IsFin(b) /\ a.v < b.v

(***************************************************************************)
(* parseFloat over a string given as its characters: an optional sign,     *)
(* digits, an optional fraction; the longest such prefix is the value and  *)
(* NaN when there is no digit.  The result is in tenths (the strings of    *)
(* the model carry at most one decimal).                                   *)
(***************************************************************************)
DigitChars ==
  [c \in {"0", "1", "2", "3", "4", "5", "6", "7", "8", "9"} |->
     CASE c = "0" -> 0 [] c = "1" -> 1 [] c = "2" -> 2 [] c = "3" -> 3 [] c = "4" -> 4
       [] c = "5" -> 5 [] c = "6" -> 6 [] c = "7" -> 7 [] c = "8" -> 8 [] c = "9" -> 9]
IsDigit(c) == c \in DOMAIN DigitChars
DigitVal(c) == DigitChars[c]

RECURSIVE DigitRun(_, _)
DigitRun(s, i) ==
  IF i <= Len(s) /\ IsDigit(s[i]) THEN 1 + DigitRun(s, i + 1) ELSE 0

RECURSIVE DigitsValue(_, _, _)
DigitsValue(s, i, n) ==
  IF n = 0 THEN 0
  ELSE 10 * DigitsValue(s, i, n - 1) + DigitVal(s[i + n - 1])

StrDecimalLiteral(s) ==
  LET signed == Len(s) >= 1 /\ s[1] \in {"-", "+"}
      start == IF signed THEN 2 ELSE 1
      n == DigitRun(s, start)
      dot == start + n
      m == IF dot <= Len(s) /\ s[dot] = "." THEN DigitRun(s, dot + 1) ELSE 0
      units == DigitsValue(s, start, n)
      tenth == IF m > 0 THEN DigitVal(s[dot + 1]) ELSE 0
      mag == 10 * units + tenth
  IN IF n = 0 /\ m = 0 THEN NaN
     ELSE Fin(IF signed /\ s[1] = "-" THEN 0 - mag ELSE mag)

\* the temperature strings of the model
T24 == <<"2", "4", ".", "0">>
T26 == <<"2", "6", ".", "0">>
Empty == <<>>
TempStrings == {T24, T26, Empty}

\* parseFloat of each of them, computed once
Parsed == [s \in TempStrings |-> StrDecimalLiteral(s)]

parseFloat(s) == Parsed[s]

\* Number.prototype.toFixed(1) of a value in tenths
toFixed1(x) ==
  IF ~IsFin(x) THEN "NaN"
  ELSE LET a == IF x.v < 0 THEN 0 - x.v ELSE x.v
       IN (IF x.v < 0 THEN "-" ELSE "") \o ToString(a \div 10) \o "." \o ToString(a % 10)

(***************************************************************************)
(* Timestamps.  A timestamp string names a day and an hour; new Date(s)    *)
(* .getTime() is its instant in milliseconds.                              *)
(***************************************************************************)
MsPerHour == 3600000
HoursPerDay == 24
DaysPerWeek == 7

getTime(ts) == (ts.day * HoursPerDay + ts.hour) * MsPerHour

\* the label toLocaleString gives a chart point
toLocaleString(ts) == ToString(ts.day) \o " " \o ToString(ts.hour) \o ":00"

\* the rows of the store are sampled at midnight, the sequences the delta
\* calculator is exercised on at midnight and noon
Timestamps(hours) == [day : 0..MaxDay, hour : hours]

\* temperature strings of a row: (indoor_temp, outdoor_temp)
TempPairs == {<<T24, T26>>, <<T26, T24>>, <<T24, T24>>, <<Empty, T24>>}
CalcPairs == {<<T24, T26>>, <<Empty, T24>>}

Readings(hours, pairs) ==
  {[timestamp |-> ts, indoor_temp |-> p[1], outdoor_temp |-> p[2]] :
     ts \in Timestamps(hours), p \in pairs}

\* order('timestamp', { ascending: true })
Ascending(s) ==
  \A i \in 1..(Len(s) - 1) : getTime(s[i].timestamp) <= getTime(s[i + 1].timestamp)

SeqsUpTo(n, readings) == UNION {[1..k -> readings] : k \in 0..n}
\* what the store can answer
StoreRows == {s \in SeqsUpTo(MaxRows, Readings({0}, TempPairs)) : Ascending(s)}
\* what the delta calculator is exercised on
CalcRows == {s \in SeqsUpTo(MaxLen, Readings({0, 12}, CalcPairs)) : Ascending(s)}

\* instants at which a render can happen
Nows ==
  {getTime([day |-> MaxDay, hour |-> 0]),
   getTime([day |-> MaxDay + 6, hour |-> 0])}

(***************************************************************************)
(* The store client exported by @/lib/supabase: a client, or null when     *)
(* the store is not configured.                                            *)
(***************************************************************************)
Client == [tag |-> "client"]
Clients == {Client, Null}

\* supabase.storage.from('casa-fresca-assets').getPublicUrl(imageName).data.publicUrl
publicUrl(imageName) == "casa-fresca-assets/" \o imageName

Str(s) == [tag |-> "str", v |-> s]
TypeError == [tag |-> "throw"]

getImageUrl(v, sb, imageName) ==
  IF v = Part001
  THEN IF sb = Null THEN TypeError ELSE Str(publicUrl(imageName))
  ELSE IF sb = Null THEN Str("") ELSE Str(publicUrl(imageName))

(***************************************************************************)
(* The quantities derived from the sequence.                               *)
(***************************************************************************)
IsReading(x) == "timestamp" \in DOMAIN x

\* data[i] of a JavaScript array
At(d, i) == IF i \in 1..Len(d) THEN d[i] ELSE Undefined

\* the first element taken for the latest
firstReading(d) == At(d, 1)

latestReading(d) == At(d, Len(d))

\* the comparison made non-strict
shouldCloseWindowsGe(d) ==
  LET latest == latestReading(d)
  IN IF IsReading(latest)
     THEN Ge(parseFloat(latest.outdoor_temp), parseFloat(latest.indoor_temp))
     ELSE FALSE

shouldCloseWindows(d) ==
  LET latest == latestReading(d)
  IN IF IsReading(latest)
     THEN Gt(parseFloat(latest.outdoor_temp), parseFloat(latest.indoor_temp))
     ELSE FALSE

Abs(n) == IF n < 0 THEN 0 - n ELSE n

\* the target with a factor of 60 dropped (24 minutes)
twentyFourMinutesAgo(d) ==
  getTime(latestReading(d).timestamp) - HoursPerDay * (MsPerHour \div 60)

\* twentyFourHoursAgo
twentyFourHoursAgo(d) ==
  getTime(latestReading(d).timestamp) - HoursPerDay * MsPerHour

\* the callback without Math.abs
closerSigned(closest, reading, target) ==
  LET readingDiff == getTime(reading.timestamp) - target
      closestDiff == getTime(closest.timestamp) - target
  IN IF readingDiff < closestDiff THEN reading ELSE closest

\* the callback with a non-strict comparison
closerLast(closest, reading, target) ==
  LET readingDiff == Abs(getTime(reading.timestamp) - target)
      closestDiff == Abs(getTime(closest.timestamp) - target)
  IN IF readingDiff <= closestDiff THEN reading ELSE closest

\* the callback of data.reduce
closer(closest, reading, target) ==
  LET readingDiff == Abs(getTime(reading.timestamp) - target)
      closestDiff == Abs(getTime(closest.timestamp) - target)
  IN IF readingDiff < closestDiff THEN reading ELSE closest

RECURSIVE reduce(_, _, _, _)
reduce(d, i, closest, target) ==
  IF i > Len(d) THEN closest
  ELSE reduce(d, i + 1, closer(closest, d[i], target), target)

\* data.reduce(..., data[0])
reading24hAgo(d) ==
  IF Len(d) = 0 THEN Undefined
  ELSE reduce(d, 1, d[1], twentyFourHoursAgo(d))

Obj(diff) == [tag |-> "obj", absoluteDiff |-> MathAbs(diff), isIncrease |-> Gt(diff, Fin(0))]

\* the magnitude alone
diffMagnitude(v, current, past) == MathAbs(Sub(current, past))

\* current - past in every iteration
diffCurrentMinusPast(v, current, past) == Sub(current, past)

\* past - current in page.tsx and the first component of part_000,
\* current - past in the second
diffOf(v, current, past) ==
  IF v = Part000b THEN Sub(current, past) ELSE Sub(past, current)

\* get24hDifference with the guard data.length < 2 inside it
get24hDifferenceGuarded(v, d, currentTemp, isIndoor) ==
  IF Len(d) < 2 THEN Null
  ELSE LET r == reading24hAgo(d)
           current == parseFloat(currentTemp)
           past == parseFloat(IF isIndoor THEN r.indoor_temp ELSE r.outdoor_temp)
           diff == diffOf(v, current, past)
       IN IF v = Part000b THEN Obj(diff) ELSE diff

get24hDifference(v, d, currentTemp, isIndoor) ==
  IF ~IsReading(latestReading(d)) THEN Null
  ELSE LET r == reading24hAgo(d)
       IN IF ~IsReading(r) THEN Null
          ELSE LET current == parseFloat(currentTemp)
                   past == parseFloat(IF isIndoor THEN r.indoor_temp ELSE r.outdoor_temp)
                   diff == diffOf(v, current, past)
               IN IF v = Part000b THEN Obj(diff) ELSE diff

(***************************************************************************)
(* The chart series.                                                       *)
(***************************************************************************)
TimeRanges == {"24h", "7d"}

\* the two windows exchanged
windowMsSwapped(tr) ==
  IF tr = "24h" THEN DaysPerWeek * HoursPerDay * MsPerHour
  ELSE HoursPerDay * MsPerHour

windowMs(tr) ==
  IF tr = "24h" THEN HoursPerDay * MsPerHour
  ELSE DaysPerWeek * HoursPerDay * MsPerHour

cutoffTime(tr, nw) == nw - windowMs(tr)

point(v, reading) ==
  IF v = Part000b
  THEN [time |-> toLocaleString(reading.timestamp),
        originalTimestamp |-> reading.timestamp,
        outdoor |-> parseFloat(reading.outdoor_temp),
        indoor |-> parseFloat(reading.indoor_temp)]
  ELSE [time |-> toLocaleString(reading.timestamp),
        outdoor |-> parseFloat(reading.outdoor_temp),
        indoor |-> parseFloat(reading.indoor_temp)]

\* the filter with a strict comparison
RECURSIVE filterStrict(_, _)
filterStrict(d, cutoff) ==
  IF d = <<>> THEN <<>>
  ELSE IF getTime(Head(d).timestamp) > cutoff
       THEN <<Head(d)>> \o filterStrict(Tail(d), cutoff)
       ELSE filterStrict(Tail(d), cutoff)

RECURSIVE filter(_, _)
filter(d, cutoff) ==
  IF d = <<>> THEN <<>>
  ELSE IF getTime(Head(d).timestamp) >= cutoff
       THEN <<Head(d)>> \o filter(Tail(d), cutoff)
       ELSE filter(Tail(d), cutoff)

formatData(v, d, tr, nw) ==
  LET filteredData == IF v = Part001 THEN d ELSE filter(d, cutoffTime(tr, nw))
  IN [i \in 1..Len(filteredData) |-> point(v, filteredData[i])]

(***************************************************************************)
(* The render: what the component returns for a state at an instant.       *)
(***************************************************************************)
NotCalled == [tag |-> "notcalled"]

\* the text of a delta annotation for the value get24hDifference returned
note(v, diff) ==
  IF diff = Null THEN ""
  ELSE IF v = Page
       THEN toFixed1(Neg(diff)) \o (IF Lt(diff, Fin(0)) THEN " mas" ELSE "menos") \o " que ayer"
  ELSE IF v = Part000a
       THEN toFixed1(MathAbs(diff)) \o "C " \o (IF Gt(diff, Fin(0)) THEN "mas" ELSE "menos") \o " ayer"
  ELSE toFixed1(diff.absoluteDiff) \o (IF diff.isIncrease THEN " +" ELSE " -") \o " que ayer"

\* the cell guarded by data.length > 0
cellDiffNonEmpty(v, d, isIndoor) ==
  LET latest == latestReading(d)
  IN IF v \in DeltaVariants /\ IsReading(latest) /\ Len(d) > 0
     THEN get24hDifference(v, d,
            IF isIndoor THEN latest.indoor_temp ELSE latest.outdoor_temp, isIndoor)
     ELSE NotCalled

\* const diff of a cell of the delta row
cellDiff(v, d, isIndoor) ==
  LET latest == latestReading(d)
  IN IF v \in DeltaVariants /\ IsReading(latest) /\ Len(d) > 1
     THEN get24hDifference(v, d,
            IF isIndoor THEN latest.indoor_temp ELSE latest.outdoor_temp, isIndoor)
     ELSE NotCalled

cellNote(v, diff) == IF diff = NotCalled THEN "" ELSE note(v, diff)

\* a cell of the readings row
reading(d, isIndoor) ==
  LET latest == latestReading(d)
  IN IF IsReading(latest)
     THEN toFixed1(parseFloat(IF isIndoor THEN latest.indoor_temp ELSE latest.outdoor_temp))
     ELSE "--"

\* formattedData: recomputed by every ready render, except in the second
\* component of part_000, where useMemo recomputes it when data or
\* timeRange changed
formattedData(v, d, ld, tr, nw, old, depsChanged) ==
  IF v = Part000b
  THEN IF depsChanged THEN [chart |-> formatData(v, d, tr, nw), at |-> nw]
       ELSE [chart |-> old.chart, at |-> old.chartNow]
  ELSE IF ld THEN [chart |-> <<>>, at |-> nw]
       ELSE [chart |-> formatData(v, d, tr, nw), at |-> nw]

\* the render deriving the latest reading, the recommendation and the
\* deltas from the readings of the selected window
RenderFiltered(v, sb, d, ld, tr, miau, nw, old, depsChanged) ==
  LET fd == formattedData(v, d, ld, tr, nw, old, depsChanged)
      w == IF v = Part001 THEN d ELSE filter(d, cutoffTime(tr, nw))
      close == shouldCloseWindows(w)
      banner == getImageUrl(v, sb, "top_new.png")
      window == getImageUrl(v, sb, IF close THEN "windows_closed.png" ELSE "windows_open.png")
      indoorDiff == cellDiff(v, w, TRUE)
      outdoorDiff == cellDiff(v, w, FALSE)
      shown == ~ld /\ banner # TypeError
  IN [screen |-> IF ld THEN "loading" ELSE IF shown THEN "ready" ELSE "crashed",
      latestReading |-> IF ld THEN Undefined ELSE latestReading(w),
      shouldCloseWindows |-> IF ld THEN FALSE ELSE close,
      windowImg |-> IF shown THEN window.v ELSE "",
      windowAlt |-> IF shown THEN (IF close THEN "Close windows" ELSE "Open windows") ELSE "",
      indoor |-> IF shown THEN reading(w, TRUE) ELSE "",
      outdoor |-> IF shown THEN reading(w, FALSE) ELSE "",
      indoorDiff |-> IF shown THEN indoorDiff ELSE NotCalled,
      outdoorDiff |-> IF shown THEN outdoorDiff ELSE NotCalled,
      indoorNote |-> IF shown THEN cellNote(v, indoorDiff) ELSE "",
      outdoorNote |-> IF shown THEN cellNote(v, outdoorDiff) ELSE "",
      chart |-> IF shown \/ v = Part000b THEN fd.chart ELSE <<>>,
      chartNow |-> fd.at,
      miau |-> shown /\ v \in MiauVariants /\ miau]

Render(v, sb, d, ld, tr, miau, nw, old, depsChanged) ==
  LET fd == formattedData(v, d, ld, tr, nw, old, depsChanged)
      close == shouldCloseWindows(d)
      banner == getImageUrl(v, sb, "top_new.png")
      window == getImageUrl(v, sb, IF close THEN "windows_closed.png" ELSE "windows_open.png")
      indoorDiff == cellDiff(v, d, TRUE)
      outdoorDiff == cellDiff(v, d, FALSE)
      shown == ~ld /\ banner # TypeError
  IN [screen |-> IF ld THEN "loading" ELSE IF shown THEN "ready" ELSE "crashed",
      latestReading |-> IF ld THEN Undefined ELSE latestReading(d),
      shouldCloseWindows |-> IF ld THEN FALSE ELSE close,
      windowImg |-> IF shown THEN window.v ELSE "",
      windowAlt |-> IF shown THEN (IF close THEN "Close windows" ELSE "Open windows") ELSE "",
      indoor |-> IF shown THEN reading(d, TRUE) ELSE "",
      outdoor |-> IF shown THEN reading(d, FALSE) ELSE "",
      indoorDiff |-> IF shown THEN indoorDiff ELSE NotCalled,
      outdoorDiff |-> IF shown THEN outdoorDiff ELSE NotCalled,
      indoorNote |-> IF shown THEN cellNote(v, indoorDiff) ELSE "",
      outdoorNote |-> IF shown THEN cellNote(v, outdoorDiff) ELSE "",
      chart |-> IF shown \/ v = Part000b THEN fd.chart ELSE <<>>,
      chartNow |-> fd.at,
      miau |-> shown /\ v \in MiauVariants /\ miau]

(***************************************************************************)
(* The view: mount, the fetch and its outcomes, the controls.              *)
(***************************************************************************)
NoCall == [fn |-> "none"]

Init ==
  /\ variant \in Variants
  /\ supabase \in Clients
  /\ data = <<>>
  /\ loading = TRUE
  /\ timeRange = "24h"
  /\ showMiau = FALSE
  /\ fetch = "mounted"
  /\ queries = 0
  /\ timers = 0
  /\ now \in Nows
  /\ view = Render(variant, supabase, <<>>, TRUE, "24h", FALSE, now,
                   [chart |-> <<>>, chartNow |-> now], TRUE)
  /\ call = NoCall

\* the state after an update, rendered at a later instant
Update(d, ld, tr, miau, depsChanged) ==
  /\ data' = d
  /\ loading' = ld
  /\ timeRange' = tr
  /\ showMiau' = miau
  /\ \E nw \in Nows :
       /\ nw >= now
       /\ now' = nw
       /\ view' = Render(variant, supabase, d, ld, tr, miau, nw, view, depsChanged)

\* fetchTemperatureData without a client: the guard returns early, or (in
\* part_001) supabase.from throws inside the try; both end in setLoading(false)
FetchNoClient ==
  /\ fetch = "mounted"
  /\ supabase = Null
  /\ fetch' = "failed"
  /\ Update(data, FALSE, timeRange, showMiau, FALSE)
  /\ UNCHANGED <<variant, supabase, queries, timers, call>>

\* fetchTemperatureData up to its await
FetchStart ==
  /\ fetch = "mounted"
  /\ supabase # Null
  /\ fetch' = "awaiting"
  /\ queries' = queries + 1
  /\ UNCHANGED <<variant, supabase, data, loading, timeRange, showMiau, timers, now, view, call>>

\* the query answers rows: setData(readings), setLoading(false)
FetchRows ==
  /\ fetch = "awaiting"
  /\ fetch' = "done"
  /\ \E readings \in StoreRows : Update(readings, FALSE, timeRange, showMiau, TRUE)
  /\ UNCHANGED <<variant, supabase, queries, timers, call>>

\* the query answers null rows without an error: setData([])
FetchNull ==
  /\ fetch = "awaiting"
  /\ fetch' = "done"
  /\ Update(<<>>, FALSE, timeRange, showMiau, TRUE)
  /\ UNCHANGED <<variant, supabase, queries, timers, call>>

\* the error answered by running the fetch once more
FetchErrorRetry ==
  /\ fetch = "awaiting"
  /\ queries < 2
  /\ fetch' = "mounted"
  /\ UNCHANGED <<variant, supabase, data, loading, timeRange, showMiau,
                 queries, timers, now, view, call>>

\* the query answers an error: logged, data untouched
FetchError ==
  /\ fetch = "awaiting"
  /\ fetch' = "failed"
  /\ Update(data, FALSE, timeRange, showMiau, FALSE)
  /\ UNCHANGED <<variant, supabase, queries, timers, call>>

\* the rejection caught without the finally block
FetchThrowNoFinally ==
  /\ fetch = "awaiting"
  /\ fetch' = "failed"
  /\ UNCHANGED <<variant, supabase, data, loading, timeRange, showMiau,
                 queries, timers, now, view, call>>

\* the awaited promise rejects: caught, logged, data untouched
FetchThrow ==
  /\ fetch = "awaiting"
  /\ fetch' = "failed"
  /\ Update(data, FALSE, timeRange, showMiau, FALSE)
  /\ UNCHANGED <<variant, supabase, queries, timers, call>>

\* the button storing the filtered sequence back into data
SetTimeRangeTrim ==
  /\ variant \in RangeVariants
  /\ view.screen = "ready"
  /\ \E tr \in TimeRanges :
       /\ tr # timeRange
       /\ Update(filter(data, cutoffTime(tr, now)), loading, tr, showMiau, TRUE)
  /\ UNCHANGED <<variant, supabase, fetch, queries, timers, call>>

\* a button of the segmented control
SetTimeRange ==
  /\ variant \in RangeVariants
  /\ view.screen = "ready"
  /\ \E tr \in TimeRanges :
       /\ tr # timeRange
       /\ Update(data, loading, tr, showMiau, TRUE)
  /\ UNCHANGED <<variant, supabase, fetch, queries, timers, call>>

\* handleCatClick: setShowMiau(true) and a timer
HandleCatClick ==
  /\ variant \in MiauVariants
  /\ view.screen = "ready"
  /\ timers < MaxTimers
  /\ timers' = timers + 1
  /\ IF showMiau
     THEN UNCHANGED <<data, loading, timeRange, showMiau, now, view>>
     ELSE Update(data, loading, timeRange, TRUE, FALSE)
  /\ UNCHANGED <<variant, supabase, fetch, queries, call>>

\* the callback inverting the flag
TimerFireToggle ==
  /\ timers > 0
  /\ timers' = timers - 1
  /\ Update(data, loading, timeRange, ~showMiau, FALSE)
  /\ UNCHANGED <<variant, supabase, fetch, queries, call>>

\* the callback of a timer: setShowMiau(false)
TimerFire ==
  /\ timers > 0
  /\ timers' = timers - 1
  /\ IF showMiau
     THEN Update(data, loading, timeRange, FALSE, FALSE)
     ELSE UNCHANGED <<data, loading, timeRange, showMiau, now, view>>
  /\ UNCHANGED <<variant, supabase, fetch, queries, call>>

Next ==
  \/ FetchNoClient
  \/ FetchStart
  \/ FetchRows
  \/ FetchNull
  \/ FetchError
  \/ FetchThrow
  \/ SetTimeRange
  \/ HandleCatClick
  \/ TimerFire

Spec == Init /\ [][Next]_vars

\* the awaited query settles: one of its four outcomes
FetchSettles == FetchRows \/ FetchNull \/ FetchError \/ FetchThrow

\* the mount effect runs fetchTemperatureData and the promise it awaits
\* settles; nothing obliges the user to click
SpecFair ==
  /\ Init /\ [][Next]_vars
  /\ WF_vars(FetchNoClient)
  /\ WF_vars(FetchStart)
  /\ WF_vars(FetchSettles)

(***************************************************************************)
(* The mascot on its own: clicks and timer callbacks on a view that has    *)
(* loaded, in the iterations where the mascot can be clicked.              *)
(***************************************************************************)
\* what the view holds when the clicks start: nothing or one reading
MiauRows == {s \in StoreRows : Len(s) <= 1}

InitMiau ==
  /\ variant \in MiauVariants
  /\ supabase \in Clients
  /\ data \in MiauRows
  /\ loading = FALSE
  /\ timeRange \in TimeRanges
  /\ showMiau = FALSE
  /\ fetch = (IF supabase = Null THEN "failed" ELSE "done")
  /\ queries = (IF supabase = Null THEN 0 ELSE 1)
  /\ timers = 0
  /\ now \in Nows
  /\ supabase = Null => data = <<>>
  /\ view = Render(variant, supabase, data, FALSE, timeRange, FALSE, now,
                   [chart |-> <<>>, chartNow |-> now], TRUE)
  /\ call = NoCall

NextMiau == HandleCatClick \/ TimerFire

\* a timer that was set fires (setTimeout); nothing obliges the user to click
SpecMiau == InitMiau /\ [][NextMiau]_vars /\ WF_vars(TimerFire)

(***************************************************************************)
(* The delta calculator on its own: get24hDifference applied to a          *)
(* sequence the view holds, for a current temperature and a field.         *)
(***************************************************************************)
InitCalc ==
  /\ variant \in DeltaVariants
  /\ supabase = Client
  /\ data \in CalcRows
  /\ loading = FALSE
  /\ timeRange = "24h"
  /\ showMiau = FALSE
  /\ fetch = "done"
  /\ queries = 1
  /\ timers = 0
  /\ now = getTime([day |-> MaxDay, hour |-> 0])
  /\ view = Render(variant, supabase, data, FALSE, "24h", FALSE, now,
                   [chart |-> <<>>, chartNow |-> now], TRUE)
  /\ call = NoCall

CallGet24hDifference ==
  /\ call = NoCall
  /\ \E currentTemp \in TempStrings, isIndoor \in BOOLEAN :
       call' = [fn |-> "get24hDifference",
                currentTemp |-> currentTemp,
                isIndoor |-> isIndoor,
                reading24hAgo |-> reading24hAgo(data),
                ret |-> get24hDifference(variant, data, currentTemp, isIndoor)]
  /\ UNCHANGED <<variant, supabase, data, loading, timeRange, showMiau,
                 fetch, queries, timers, now, view>>

NextCalc == CallGet24hDifference

SpecCalc == InitCalc /\ [][NextCalc]_vars

(***************************************************************************)
(* Properties of the delta calculator (checked under SpecCalc).            *)
(***************************************************************************)
Called == call.fn = "get24hDifference"

\* the instant 24 hours before the last reading of the sequence
Target == getTime(data[Len(data)].timestamp) - 24 * 60 * 60 * 1000

\* the distance of a reading from the target
Distance(r) ==
  LET t == getTime(r.timestamp)
  IN IF t >= Target THEN t - Target ELSE Target - t

\* the field of the reading the lookup selected, and the current value
PastValue ==
  parseFloat(IF call.isIndoor THEN call.reading24hAgo.indoor_temp
             ELSE call.reading24hAgo.outdoor_temp)
CurrentValue == parseFloat(call.currentTemp)

\* C1: for a non-empty sequence the reading the lookup selects is a reading
\* of the sequence and no reading of the sequence is nearer to the target
\* instant (the last timestamp minus 24h) than it is.
C1_NearestIsMinimal ==
  (Called /\ data # <<>>) =>
     /\ \E i \in 1..Len(data) : data[i] = call.reading24hAgo
     /\ \A i \in 1..Len(data) : Distance(call.reading24hAgo) <= Distance(data[i])

\* a lookup that left the first reading, before the target, for a nearer one
\* after the target that is not the latest
C1_Witness ==
  /\ Called
  /\ Len(data) = 3
  /\ getTime(data[1].timestamp) < Target
  /\ getTime(call.reading24hAgo.timestamp) > Target
  /\ call.reading24hAgo = data[2]
  /\ Distance(data[2]) < Distance(data[1])
  /\ Distance(data[2]) < Distance(data[3])

\* the signed value of what get24hDifference returned
Signed(ret) ==
  IF ret.tag = "obj"
  THEN (IF ret.isIncrease THEN ret.absoluteDiff.v ELSE 0 - ret.absoluteDiff.v)
  ELSE ret.v

FiniteCall ==
  Called /\ data # <<>> /\ IsFin(CurrentValue) /\ IsFin(PastValue)

\* C2 as stated: the delta returned is current minus past in every iteration.
C2_CurrentMinusPast ==
  FiniteCall => Signed(call.ret) = CurrentValue.v - PastValue.v

\* C2: the delta returned is signed; page.tsx and the first component of
\* part_000 return past minus current, the second component of part_000
\* returns current minus past as a magnitude and an isIncrease flag.
C2_SignedDelta ==
  FiniteCall =>
     IF variant \in NumberVariants
     THEN call.ret.tag = "num" /\ call.ret.v = PastValue.v - CurrentValue.v
     ELSE /\ call.ret.tag = "obj"
          /\ call.ret.isIncrease = (CurrentValue.v > PastValue.v)
          /\ call.ret.absoluteDiff.v \in {CurrentValue.v - PastValue.v, PastValue.v - CurrentValue.v}
          /\ call.ret.absoluteDiff.v >= 0

\* page.tsx returns a positive delta for a current value below the past one
C2_Witness ==
  /\ FiniteCall
  /\ variant = Page
  /\ Len(data) = 2
  /\ CurrentValue.v < PastValue.v
  /\ call.ret.v > 0

\* C4 as stated: with fewer than 2 readings get24hDifference returns null.
C4_NullBelowTwo ==
  (Called /\ Len(data) < 2) => call.ret = Null

\* C4: with an empty sequence get24hDifference returns null; with a single
\* reading the lookup selects that reading and the function returns the
\* delta against it, not null; in both cases it returns a value.
C4_FewReadings ==
  Called =>
     /\ Len(data) = 0 => call.ret = Null
     /\ Len(data) = 1 =>
          /\ call.reading24hAgo = data[1]
          /\ call.ret # Null
          /\ call.ret.tag \in {"num", "NaN", "obj"}
          /\ (IsFin(CurrentValue) /\ IsFin(PastValue)) =>
               Signed(call.ret) \in {CurrentValue.v - PastValue.v, PastValue.v - CurrentValue.v}

\* a single reading, its own indoor temperature as the current value: delta 0
C4_Witness ==
  /\ Called
  /\ Len(data) = 1
  /\ call.isIndoor
  /\ call.currentTemp = data[1].indoor_temp
  /\ IsFin(CurrentValue)
  /\ call.ret # Null
  /\ Signed(call.ret) = 0

\* C6: when a reading lies exactly 24 hours before the last one, the lookup
\* selects a reading with exactly that timestamp.
C6_ExactMatch ==
  (Called /\ data # <<>> /\ \E i \in 1..Len(data) : getTime(data[i].timestamp) = Target)
     => getTime(call.reading24hAgo.timestamp) = Target

\* the exact reading sits between an earlier and a later one
C6_Witness ==
  /\ Called
  /\ Len(data) = 3
  /\ getTime(data[1].timestamp) < Target
  /\ getTime(data[2].timestamp) = Target
  /\ call.reading24hAgo.timestamp = data[2].timestamp

\* the readings of the sequence at the minimal distance from the target
Nearest == {i \in 1..Len(data) : \A j \in 1..Len(data) : Distance(data[i]) <= Distance(data[j])}

\* the first of them in the order of the sequence
FirstNearest == CHOOSE i \in Nearest : \A j \in Nearest : i <= j

\* C13: when several readings are at the same minimal distance from the
\* target instant, the lookup selects the one that comes first in the
\* sequence; the reading selected is determined by the sequence alone.
C13_FirstOfTies ==
  (Called /\ data # <<>>) => call.reading24hAgo = data[FirstNearest]

\* two different readings 12 hours before and after the target, the earlier
\* one selected
C13_Witness ==
  /\ Called
  /\ Len(data) = 3
  /\ Nearest = {1, 2}
  /\ getTime(data[1].timestamp) < Target
  /\ getTime(data[2].timestamp) > Target
  /\ data[1] # data[2]
  /\ call.reading24hAgo = data[1]

\* the string of the field of the reading the lookup selected
PastString ==
  IF call.isIndoor THEN call.reading24hAgo.indoor_temp
  ELSE call.reading24hAgo.outdoor_temp

\* the sequence with the current string stored in the field of every
\* reading: the lookup selects the reading of the same timestamp, whose
\* field is now the current string
Swapped ==
  [i \in 1..Len(data) |->
     IF call.isIndoor THEN [data[i] EXCEPT !.indoor_temp = call.currentTemp]
     ELSE [data[i] EXCEPT !.outdoor_temp = call.currentTemp]]

\* C14: for finite values a and b, the delta of current = a and past = b is
\* the negation of the delta of current = b and past = a, and 0 when a = b.
C14_Antisymmetric ==
  FiniteCall =>
     /\ Signed(call.ret) =
          0 - Signed(get24hDifference(variant, Swapped, PastString, call.isIndoor))
     /\ CurrentValue = PastValue => Signed(call.ret) = 0

\* 26.0 against 24.0 in the component that returns a magnitude and a flag
C14_Witness ==
  /\ FiniteCall
  /\ variant = Part000b
  /\ CurrentValue.v = 260 /\ PastValue.v = 240
  /\ Signed(call.ret) = 20
  /\ Signed(get24hDifference(variant, Swapped, PastString, call.isIndoor)) = 0 - 20

\* the call is made as the delta row makes it: the current string is the
\* field of the last reading
RowCall ==
  /\ Called
  /\ data # <<>>
  /\ call.currentTemp = (IF call.isIndoor THEN data[Len(data)].indoor_temp
                         ELSE data[Len(data)].outdoor_temp)

\* every reading but the last is more than 24 hours from the target
OthersFar ==
  \A i \in 1..(Len(data) - 1) : Distance(data[i]) > 24 * 60 * 60 * 1000

\* the delta returned is the number 0
ZeroDelta(ret) ==
  \/ ret.tag = "num" /\ ret.v = 0
  \/ ret.tag = "obj" /\ ret.absoluteDiff.tag = "num" /\ ret.absoluteDiff.v = 0

\* C20: for a non-empty sequence the reading selected is a reading of the
\* sequence within 24 hours of the target, the last reading being a
\* candidate at exactly 24 hours; when every other reading is more than 24
\* hours from the target, the last reading is selected and the delta is 0.
C20_WithinADay ==
  (Called /\ data # <<>>) =>
     /\ \E i \in 1..Len(data) : data[i] = call.reading24hAgo
     /\ Distance(data[Len(data)]) = 24 * 60 * 60 * 1000
     /\ Distance(call.reading24hAgo) <= 24 * 60 * 60 * 1000
     /\ OthersFar =>
          /\ call.reading24hAgo = data[Len(data)]
          /\ RowCall => ZeroDelta(call.ret)

(***************************************************************************)
(* Properties of the view (checked under Spec).                            *)
(***************************************************************************)
Ready == view.screen = "ready"

\* C3: the recommendation is "close" exactly when the last reading's outdoor
\* temperature is strictly greater than its indoor temperature, and "open"
\* otherwise (equal, lower, no reading); it depends on the last reading only.
C3_Recommendation ==
  ~loading =>
     LET n == Len(data)
         close == /\ n > 0
                  /\ LET o == parseFloat(data[n].outdoor_temp)
                         i == parseFloat(data[n].indoor_temp)
                     IN o.tag = "num" /\ i.tag = "num" /\ o.v > i.v
     IN /\ view.shouldCloseWindows = close
        /\ Ready => view.windowAlt = (IF close THEN "Close windows" ELSE "Open windows")

\* the last reading has equal temperatures, the one before it is warmer outside
C3_Witness ==
  /\ Ready
  /\ Len(data) = 2
  /\ data[2].indoor_temp = T24 /\ data[2].outdoor_temp = T24
  /\ data[1].indoor_temp = T24 /\ data[1].outdoor_temp = T26
  /\ view.windowAlt = "Open windows"

\* C5: once loaded, a sequence of fewer than 2 readings shows no delta
\* annotation, indoor or outdoor; an annotation is shown only for a sequence
\* of at least 2 readings.
C5_NoDeltaBelowTwo ==
  /\ (~loading /\ Len(data) < 2) =>
        /\ view.indoorNote = "" /\ view.outdoorNote = ""
        /\ view.indoorDiff = NotCalled /\ view.outdoorDiff = NotCalled
  /\ (view.indoorNote # "" \/ view.outdoorNote # "") => Len(data) >= 2

\* a single reading on the ready screen of an iteration with a delta row
C5_Witness ==
  /\ Ready
  /\ variant \in DeltaVariants
  /\ Len(data) = 1
  /\ view.indoor = "24.0"
  /\ view.indoorNote = "" /\ view.outdoorNote = ""

\* the readings of the sequence at or after the cutoff of a window
Retained(tr, nw) ==
  {i \in 1..Len(data) :
     getTime(data[i].timestamp) >=
       nw - (IF tr = "24h" THEN 24 * 60 * 60 * 1000 ELSE 7 * 24 * 60 * 60 * 1000)}

\* C7: the chart series of an iteration with a time range holds one point per
\* reading with timestamp >= now - W, in the order of the sequence, and no
\* other point; the cutoff is taken from the instant of the computation, so
\* a sequence whose last reading is older than W gives an empty series.
C7_RangeFilter ==
  (Ready /\ variant \in RangeVariants) =>
     LET kept == Retained(timeRange, view.chartNow)
     IN /\ Len(view.chart) = Cardinality(kept)
        /\ \A i \in kept :
             LET k == Cardinality({j \in kept : j <= i})
             IN /\ view.chart[k].time = toLocaleString(data[i].timestamp)
                /\ view.chart[k].outdoor = parseFloat(data[i].outdoor_temp)
                /\ view.chart[k].indoor = parseFloat(data[i].indoor_temp)
        /\ (data # <<>> /\ Len(data) \notin kept) => view.chart = <<>>

\* under 7d the first of two readings is dropped and the second, exactly at
\* the cutoff, is kept
C7_Witness ==
  /\ Ready
  /\ variant \in RangeVariants
  /\ timeRange = "7d"
  /\ Len(data) = 2
  /\ getTime(data[2].timestamp) = view.chartNow - 7 * 24 * 60 * 60 * 1000
  /\ Len(view.chart) = 1
  /\ view.chart[1].time = toLocaleString(data[2].timestamp)

\* the readings a window keeps at an instant
Kept(tr, nw) ==
  LET f == filter(data, cutoffTime(tr, nw))
  IN {f[i] : i \in 1..Len(f)}

\* C8: for the sequence held and any instant, the readings the filter keeps
\* under 7d include the readings it keeps under 24h.
C8_SevenDaysSuperset ==
  (~loading /\ variant \in RangeVariants) =>
     \A nw \in Nows : Kept("24h", nw) \subseteq Kept("7d", nw)

\* the chart shows both readings under 7d where 24h keeps only the second
C8_Witness ==
  /\ Ready
  /\ variant \in RangeVariants
  /\ timeRange = "7d"
  /\ Len(data) = 2
  /\ Len(view.chart) = 2
  /\ Kept("24h", view.chartNow) = {data[2]}
  /\ data[1] # data[2]

\* C9: for a non-empty sequence the latest reading of the view is the last
\* element (none has a later timestamp); for the empty sequence it is absent.
C9_LatestIsLast ==
  ~loading =>
     IF data = <<>> THEN view.latestReading = Undefined
     ELSE /\ view.latestReading = data[Len(data)]
          /\ \A i \in 1..Len(data) :
               getTime(data[i].timestamp) <= getTime(view.latestReading.timestamp)
          /\ Ready => view.indoor = toFixed1(parseFloat(data[Len(data)].indoor_temp))

\* two different readings, the second one displayed
C9_Witness ==
  /\ Ready
  /\ Len(data) = 2
  /\ data[1].indoor_temp = T24
  /\ data[2].indoor_temp = T26
  /\ getTime(data[1].timestamp) < getTime(data[2].timestamp)
  /\ view.indoor = "26.0"

\* C10: once loaded with an empty sequence the view is displayed (nothing
\* threw) with the fallbacks: no latest reading, "--" for both temperatures,
\* no delta, the "open" recommendation and an empty chart series.
C10_EmptyFallbacks ==
  (~loading /\ data = <<>>) =>
     /\ view.screen = "ready"
     /\ view.latestReading = Undefined
     /\ view.indoor = "--" /\ view.outdoor = "--"
     /\ view.indoorNote = "" /\ view.outdoorNote = ""
     /\ view.indoorDiff \in {NotCalled, Null} /\ view.outdoorDiff \in {NotCalled, Null}
     /\ view.shouldCloseWindows = FALSE
     /\ view.windowAlt = "Open windows"
     /\ view.chart = <<>>

\* the value of a field of the last reading of the sequence
LatestValue(isIndoor) ==
  parseFloat(IF isIndoor THEN data[Len(data)].indoor_temp
             ELSE data[Len(data)].outdoor_temp)

\* C11: when a temperature of the last reading does not parse to a finite
\* number, the displayed current temperature is the placeholder "--", and
\* the text "NaN" is never displayed.
C11_PlaceholderForNaN ==
  Ready =>
     /\ view.indoor # "NaN" /\ view.outdoor # "NaN"
     /\ (data # <<>> /\ ~IsFin(LatestValue(TRUE))) => view.indoor = "--"
     /\ (data # <<>> /\ ~IsFin(LatestValue(FALSE))) => view.outdoor = "--"

\* a delta that is not a finite number
NonFinite(diff) ==
  \/ diff.tag = "NaN"
  \/ diff.tag = "obj" /\ ~IsFin(diff.absoluteDiff)

\* C12: when the current temperature or the field of the reading selected
\* for 24h ago does not parse to a finite number, no delta is shown for that
\* field, and no delta that is not finite reaches the display.
C12_GracefulDelta ==
  Ready =>
     /\ ~NonFinite(view.indoorDiff) /\ ~NonFinite(view.outdoorDiff)
     /\ (data # <<>> /\ ~IsFin(LatestValue(TRUE))) => view.indoorNote = ""
     /\ (data # <<>> /\ ~IsFin(LatestValue(FALSE))) => view.outdoorNote = ""

\* the assets the components resolve
AssetNames == {"top_new.png", "windows_closed.png", "windows_open.png", "cat.png"}

\* C15: when the store client is unavailable, getImageUrl returns the empty
\* string for every asset name in every iteration, and the view is displayed
\* (with empty image URLs) instead of crashing.
C15_EmptyUrlNoCrash ==
  (~loading /\ supabase = Null) =>
     /\ view.screen = "ready"
     /\ view.windowImg = ""
     /\ \A imageName \in AssetNames : getImageUrl(variant, supabase, imageName) = Str("")

\* C16: the view starts with loading = true; when the fetch is given its
\* turn, loading eventually becomes false whatever the outcome of the fetch
\* (rows, null or no rows, a query error, an exception, no client); once
\* false, loading is never true again.
C16_LeavesLoading ==
  /\ loading = TRUE
  /\ <>(~loading)
  /\ [][~loading => ~loading']_vars

\* loading left after the fetch found no client in part_001, where the
\* exception of supabase.from is caught
C16_Witness ==
  /\ ~loading
  /\ fetch = "failed"
  /\ supabase = Null
  /\ variant = Part001
  /\ queries = 0

\* C17: after a failed fetch (a query error, an exception, no client) the
\* sequence is still the initial empty sequence and the view is displayed
\* with the empty-data placeholders; no error is shown to the user.
C17_FailureDegrades ==
  fetch = "failed" =>
     /\ data = <<>>
     /\ ~loading
     /\ view.screen = "ready"
     /\ view.latestReading = Undefined
     /\ view.indoor = "--" /\ view.outdoor = "--"
     /\ view.indoorNote = "" /\ view.outdoorNote = ""
     /\ view.chart = <<>>

\* the fetch has run to its end
Completed == fetch \in {"done", "failed"}

\* C18 as stated: exactly one query is issued per view instance.
C18_ExactlyOneQuery ==
  /\ queries <= 1
  /\ Completed => queries = 1

\* C18: at most one query is issued per view instance, by the fetch of the
\* initial load: exactly one when the store client is available and none
\* when it is not; a failure of the fetch, a change of the time range and a
\* click on the mascot issue no further query.
C18_AtMostOneQuery ==
  queries = (IF supabase # Null /\ fetch # "mounted" THEN 1 ELSE 0)

\* still one query after a query error, a change of range and a click
C18_Witness ==
  /\ fetch = "failed"
  /\ supabase # Null
  /\ timeRange = "7d"
  /\ timers > 0
  /\ queries = 1

\* C19: the sequence is assigned only by the successful completion of the
\* fetch, which happens at most once; a step that changes the time range,
\* shows or hides the mascot's bubble or starts or ends one of its timers
\* leaves the sequence and the loading flag unchanged, and so does every
\* step after the fetch has completed (the renders, with their filter and
\* their nearest lookup, included).
C19_DataFrame ==
  [][/\ data' # data => (fetch = "awaiting" /\ fetch' = "done")
     /\ Completed => (fetch' = fetch /\ data' = data /\ loading' = loading)
     /\ (timeRange' # timeRange \/ showMiau' # showMiau \/ timers' # timers)
          => (data' = data /\ loading' = loading)]_vars

\* two readings fetched, then the range changed, two clicks and one timer
\* callback
C19_Witness ==
  /\ fetch = "done"
  /\ Len(data) = 2
  /\ data[1] # data[2]
  /\ timeRange = "7d"
  /\ timers = 1
  /\ ~showMiau
  /\ Len(view.chart) < Len(data)

\* what a render shows besides the chart series
Derived(w) ==
  <<w.screen, w.latestReading, w.shouldCloseWindows, w.windowImg, w.windowAlt,
    w.indoor, w.outdoor, w.indoorDiff, w.outdoorDiff, w.indoorNote,
    w.outdoorNote, w.miau>>

\* C21: the latest reading, the recommendation and both deltas come from
\* the whole fetched sequence: a change of the time range, in either
\* direction, leaves the sequence and all of them as they were (the latest
\* reading still the last of the whole sequence) and changes the chart
\* series only.
C21_RangeIndependent ==
  [][timeRange' # timeRange =>
       /\ data' = data
       /\ Derived(view') = Derived(view)
       /\ view'.latestReading = At(data, Len(data))]_vars

\* after a change to 7d the chart shows two readings where 24h kept none
\* of them, and the delta of the two is displayed
C21_Witness ==
  /\ Ready
  /\ timeRange = "7d"
  /\ Len(data) = 2
  /\ Len(view.chart) = 2
  /\ Kept("24h", view.chartNow) = {}
  /\ view.latestReading = data[2]
  /\ view.indoorDiff # NotCalled
  /\ view.indoorNote # ""

\* C22: however clicks and timer callbacks interleave, the bubble is shown
\* only while a timer of a click is pending, so it is hidden once every
\* timer has fired; a bubble that is shown is eventually hidden.
C22_BubbleHidden ==
  /\ [](showMiau => timers > 0)
  /\ [](view.miau => showMiau)
  /\ (showMiau ~> ~showMiau)

\* two clicks and the callback of the first: the bubble is hidden while the
\* timer of the second click is pending
C22_Witness ==
  /\ Ready
  /\ variant \in MiauVariants
  /\ timers = 1
  /\ ~showMiau
  /\ ~view.miau

====
